---------------------------- MODULE Spec2Model ----------------------------
(***************************************************************************)
(* A model of petermein/apollo: the control plane's in-memory job queue    *)
(* (internal/api JobStore and its HTTP handlers), the operator's poll      *)
(* loop and HTTP handlers (cmd/operator), the privilege modules            *)
(* (internal/operators/mysql, kubernetes), the rule engine                 *)
(* (internal/rules) and the privilege lifecycle of the specification.      *)
(*                                                                         *)
(* Each subsystem has its own specification over the shared variables;     *)
(* the variables of the other subsystems stay at their idle values.        *)
(***************************************************************************)
EXTENDS Integers, Sequences, FiniteSets, TLC

VARIABLES
    \* ---- JobStore (internal/api/handlers.go) ----
    jobs,           \* JobStore.jobs: job ID -> Job
    clock,          \* the last reading of time.Now().UnixNano() by generateJobID
    mu,             \* JobStore.mu: "free" or the caller inside UpdateJob
    call,           \* per HTTP worker: its HandleUpdateJob call in progress
    httpResp,       \* per HTTP worker: the status of its last HandleUpdateJob
    firstTerminal,  \* history: Status/Result/Error a job had when it first became terminal
    lastDone,       \* history: Status/Result/Error of the last UpdateJob call that returned
    dispatchedBy,   \* history: job ID -> operators that called the job's handler
    \* ---- operator poll loop (cmd/operator main, processJobs) ----
    ops,            \* per operator: position in processJobs, the jobs still to handle
    handled,        \* history: the job processJobs handled last, and how
    \* ---- operator HTTP handlers and the modules (cmd/operator, internal/operators) ----
    enabled,        \* the enabled modules main passes to the handlers
    granted,        \* the privileges granted on the MySQL server: <<username, privilege>>
    invoked,        \* history: the request of the last Module.HandlePrivilegeRequest call
    resp,           \* the last HTTP response of a handler
    \* ---- rule engine (internal/rules/security.go) ----
    ruleRequest,    \* the models.PrivilegeRequest handed to EvaluateRequest
    ruleVerdict,    \* the error EvaluateRequest returned for it ("" is nil)
    \* ---- privilege lifecycle (specification 4.3) ----
    now,            \* time.Now(), in seconds
    requests,       \* the Request table, in order of submission
    grants,         \* the Grant table, in order of creation
    lastRevoke,     \* history: the last revoke attempt, the module's answer, the sweep cycles' parity
    \* ---- module registries (internal/operators, cmd/api/modules, cmd/operator/modules) ----
    registryKind,   \* which of the three registry types this registry is
    registered,     \* the registry's modules map: name -> Module
    regCall,        \* history: the last Register / GetEnabledModules call and its result
    \* ---- JobStore, called by one caller at a time ----
    storeCall,      \* history: the last JobStore call, the store before it, its result
    \* ---- operator shutdown (cmd/operator main with the poll loop) ----
    sigChan,        \* the number of signals buffered in sigChan (capacity 1)
    signalsSent,    \* the number of SIGINT / SIGTERM sent to the process
    pollLoop,       \* the poll goroutine's position
    mainPC,         \* main's position
    inflight,       \* the HTTP requests the server is serving
    interrupted,    \* history: the process exited while processJobs was running
    \* ---- operator liveness table (cmd/api mysql module) ----
    operatorsTable, \* the operators table: operator ID -> row, or NoRow
    dbNow,          \* CURRENT_TIMESTAMP / NOW() of the database, in seconds
    liveCall,       \* history: the last call on the table, the table before it, its result
    \* ---- CLI client waiting for a job (cmd/cli/api.go) ----
    waiter,         \* the CLI's WaitForJobCompletion call: position, job ID, result
    \* ---- operator startup (cmd/operator/main.go) ----
    initCalls,      \* the modules main called Initialize on, in order
    startPC,        \* main's position: "wiring", "serving" or "fatal"
    \* ---- MySQL server monitoring (cmd/operator mysql module, cmd/api mysql module) ----
    serversTable,   \* the mysql_servers table: server name -> row, or NoRow
    monitoring,     \* per server: its operator's health check loop, "off" or "running"
    monCall         \* history: the last step of a monitoring operator

storeVars == <<jobs, clock, mu, call, httpResp, firstTerminal, lastDone, dispatchedBy>>

pollVars == <<ops, handled>>

jobVars == <<storeVars, pollVars>>

httpVars == <<enabled, granted, invoked, resp>>

ruleVars == <<ruleRequest, ruleVerdict>>

lifeVars == <<now, requests, grants, lastRevoke>>

regVars == <<registryKind, registered, regCall>>

callVars == <<storeCall>>

shutVars == <<sigChan, signalsSent, pollLoop, mainPC, inflight, interrupted>>

liveVars == <<operatorsTable, dbNow, liveCall>>

waitVars == <<waiter>>

startVars == <<initCalls, startPC>>

monVars == <<serversTable, monitoring, monCall>>

nonJobVars == <<httpVars, ruleVars, lifeVars, regVars, callVars, shutVars, liveVars, waitVars, startVars, monVars>>

nonHTTPVars == <<jobVars, ruleVars, lifeVars, regVars, callVars, shutVars, liveVars, waitVars, startVars, monVars>>

nonRuleVars == <<jobVars, httpVars, lifeVars, regVars, callVars, shutVars, liveVars, waitVars, startVars, monVars>>

nonLifeVars == <<jobVars, ruleVars, regVars, callVars, shutVars, liveVars, waitVars, startVars, monVars>>

nonRegVars == <<jobVars, httpVars, ruleVars, lifeVars, callVars, shutVars, liveVars, waitVars, startVars, monVars>>

nonCallVars == <<httpVars, ruleVars, lifeVars, regVars, shutVars, liveVars, waitVars, startVars, monVars>>

nonShutVars == <<jobVars, httpVars, ruleVars, lifeVars, regVars, callVars, liveVars, waitVars, startVars, monVars>>

nonLiveVars == <<jobVars, httpVars, ruleVars, lifeVars, regVars, callVars, shutVars, waitVars, startVars, monVars>>

nonWaitVars == <<jobVars, httpVars, ruleVars, lifeVars, regVars, callVars, shutVars, liveVars, startVars, monVars>>

nonStartVars == <<jobVars, httpVars, ruleVars, lifeVars, regVars, callVars, shutVars, liveVars, waitVars, monVars>>

nonMonVars == <<jobVars, httpVars, ruleVars, lifeVars, regVars, callVars, shutVars, liveVars, waitVars, startVars>>

vars == <<jobVars, httpVars, ruleVars, lifeVars, regVars, callVars, shutVars, liveVars, waitVars, startVars, monVars>>

-----------------------------------------------------------------------------
(* Bounds *)

MaxClock == 2

\* The last reading of the database's clock, in seconds.
MaxDBClock == 3

Workers   == {"w1", "w2"}
Operators == {"op1", "op2"}

JobIDs == 1 .. MaxClock

-----------------------------------------------------------------------------
(* Job, JobStore *)

NoID == 0

GoodPayload == "{\"server\":\"local\"}"
BadPayload  == "{bad"

\* The (Module, Type, Request) arguments CreateJob is called with.
CreateInputs ==
    { <<"mysql", "ping", GoodPayload>>,
      <<"mysql", "ping", BadPayload>>,
      <<"mysql", "grant", GoodPayload>>,
      <<"kubernetes", "ping", GoodPayload>> }

\* The CreateJob arguments of the store's own specification.
StoreCreateInputs ==
    { <<"mysql", "ping", GoodPayload>>, <<"kubernetes", "ping", BadPayload>> }

\* The (status, result, error) bodies PUT to HandleUpdateJob.
UpdateInputs ==
    { <<"completed", "myhost.local", "">>,
      <<"failed", "", "connection refused">> }

NewJob(id, module, jobType, request) ==
    [ID |-> id, Module |-> module, Type |-> jobType, Request |-> request,
     Status |-> "pending", Result |-> "", Error |-> ""]

Outcome(job) == <<job.Status, job.Result, job.Error>>

NoOutcome == <<"none", "", "">>

Terminal(status) == status \in {"completed", "failed"}

\* generateJobID: "job_%d" of the clock reading t.
generateJobID(t) == t

Put(f, k, v) == [x \in DOMAIN f \cup {k} |-> IF x = k THEN v ELSE f[x]]

\* s.mu.Lock() returns once no caller holds the lock.
CanLockNoMutex(w) == TRUE

CanLock(w) == mu = "free"

\* s.mu.RLock() returns once no writer holds the lock.
CanRLock == mu = "free"

\* JobStore.CreateJob: the job is built privately and stored by one map
\* assignment under the lock; an ID already in the map is overwritten.
StoreJob(t, module, jobType, request) ==
    /\ CanLock("api")
    /\ clock' = t
    /\ LET id == generateJobID(t) IN
         /\ jobs' = Put(jobs, id, NewJob(id, module, jobType, request))
         /\ firstTerminal' = Put(firstTerminal, id, NoOutcome)
         /\ lastDone' = Put(lastDone, id, <<"pending", "", "">>)
         /\ dispatchedBy' = [dispatchedBy EXCEPT ![id] = {}]

CreateJob(t, module, jobType, request) ==
    /\ StoreJob(t, module, jobType, request)
    /\ UNCHANGED <<mu, call, httpResp, pollVars, nonJobVars>>

\* The readings generateJobID can take after the reading last: the clock does
\* not run backwards, and two calls within its resolution read the same value.
Readings(last) == {t \in JobIDs : t >= last}

\* The readings of calls that are further apart than the clock's resolution.
LaterReadings(last) == {t \in JobIDs : t > last}

\* JobStore.GetPendingJobs: the IDs of the jobs whose Status is pending.
GetPendingJobsOfAnyStatus == DOMAIN jobs

GetPendingJobs == {id \in DOMAIN jobs : jobs[id].Status = "pending"}

\* JobStore.GetJob
GetJob(id) == IF id \in DOMAIN jobs THEN jobs[id] ELSE [ID |-> NoID]

\* r.URL.Query().Get("id"): the value of the query parameter, "" (NoID) if absent.
QueryGet(url) ==
    IF \E p \in url.query : p[1] = "id"
    THEN (CHOOSE p \in url.query : p[1] = "id")[2]
    ELSE NoID

\* The URLs a PUT reaches HandleUpdateJob with: the ID as query parameter,
\* or in the path only.
UpdateURLs ==
    {[path |-> NoID, query |-> {<<"id", id>>}] : id \in JobIDs}
    \cup {[path |-> id, query |-> {}] : id \in JobIDs}

Idle == [pc |-> "idle", id |-> NoID, args |-> NoOutcome]

\* Handler.HandleUpdateJob up to its call of JobStore.UpdateJob: 400 when the
\* request carries no query parameter id.
HandleUpdateJob(w, url, args) ==
    /\ call[w].pc = "idle"
    /\ LET jobID == QueryGet(url) IN
         IF jobID = NoID
         THEN /\ httpResp' = [httpResp EXCEPT ![w] = 400]
              /\ UNCHANGED call
         ELSE /\ call' = [call EXCEPT ![w] =
                            [pc |-> "waiting", id |-> jobID, args |-> args]]
              /\ httpResp' = [httpResp EXCEPT ![w] = 0]
    /\ UNCHANGED <<jobs, clock, mu, firstTerminal, lastDone, dispatchedBy, pollVars, nonJobVars>>

\* JobStore.UpdateJob: s.mu.Lock() and the lookup; an unknown ID returns the
\* error (the deferred Unlock runs) and the handler answers 404.
UpdateJobLock(w) ==
    /\ call[w].pc = "waiting"
    /\ CanLock(w)
    /\ IF call[w].id \notin DOMAIN jobs
       THEN /\ httpResp' = [httpResp EXCEPT ![w] = 404]
            /\ call' = [call EXCEPT ![w] = Idle]
            /\ UNCHANGED mu
       ELSE /\ mu' = w
            /\ call' = [call EXCEPT ![w].pc = "locked"]
            /\ UNCHANGED httpResp
    /\ UNCHANGED <<jobs, clock, firstTerminal, lastDone, dispatchedBy, pollVars, nonJobVars>>

\* job.Status = status
UpdateJobStatus(w) ==
    /\ call[w].pc = "locked"
    /\ jobs' = [jobs EXCEPT ![call[w].id].Status = call[w].args[1]]
    /\ call' = [call EXCEPT ![w].pc = "status"]
    /\ UNCHANGED <<clock, mu, httpResp, firstTerminal, lastDone, dispatchedBy, pollVars, nonJobVars>>

\* job.Result = result
UpdateJobResult(w) ==
    /\ call[w].pc = "status"
    /\ jobs' = [jobs EXCEPT ![call[w].id].Result = call[w].args[2]]
    /\ call' = [call EXCEPT ![w].pc = "result"]
    /\ UNCHANGED <<clock, mu, httpResp, firstTerminal, lastDone, dispatchedBy, pollVars, nonJobVars>>

\* job.Error = errMsg; return nil (the deferred Unlock runs); 200.
UpdateJobError(w) ==
    /\ call[w].pc = "result"
    /\ LET id == call[w].id IN
         /\ jobs' = [jobs EXCEPT ![id].Error = call[w].args[3]]
         /\ lastDone' = [lastDone EXCEPT ![id] = call[w].args]
         /\ firstTerminal' =
              IF firstTerminal[id] = NoOutcome /\ Terminal(call[w].args[1])
              THEN [firstTerminal EXCEPT ![id] = call[w].args]
              ELSE firstTerminal
    /\ mu' = "free"
    /\ call' = [call EXCEPT ![w] = Idle]
    /\ httpResp' = [httpResp EXCEPT ![w] = 200]
    /\ UNCHANGED <<clock, dispatchedBy, pollVars, nonJobVars>>

\* JobStore.UpdateJob as one step, for a caller that runs it to completion
\* while it holds the lock.
UpdateJobKeepingResult(js, id, status, result, errMsg) ==
    [js EXCEPT ![id].Status = status, ![id].Error = errMsg]

\* UpdateJob, had it written the outcome to every job of the map.
UpdateJobOfEveryJob(js, id, status, result, errMsg) ==
    [k \in DOMAIN js |->
       [js[k] EXCEPT !.Status = status, !.Result = result, !.Error = errMsg]]

UpdateJob(js, id, status, result, errMsg) ==
    [js EXCEPT ![id].Status = status, ![id].Result = result, ![id].Error = errMsg]

StoreInit ==
    /\ jobs = <<>>
    /\ clock = 0
    /\ mu = "free"
    /\ call = [w \in Workers |-> Idle]
    /\ httpResp = [w \in Workers |-> 0]
    /\ firstTerminal = <<>>
    /\ lastDone = <<>>
    /\ dispatchedBy = [id \in JobIDs |-> {}]

-----------------------------------------------------------------------------
(* The operator's poll loop: cmd/operator main, processJobs, processPingJob *)

\* main registers mysql.NewModule() only, so the enabled modules of an
\* operator that started are mysql modules.
OperatorModules(o) == <<"mysql">>

\* The loop over modules, had it taken the first module whatever its name.
FindModuleOfAnyName(modules, name) ==
    IF modules = <<>> THEN "" ELSE modules[1]

\* The loop over modules comparing m.Name() with the wanted name; "" is nil.
FindModule(modules, name) ==
    IF \E i \in 1 .. Len(modules) : modules[i] = name
    THEN modules[CHOOSE i \in 1 .. Len(modules) :
                    /\ modules[i] = name
                    /\ \A k \in 1 .. (i - 1) : modules[k] # name]
    ELSE ""

\* json.Unmarshal, had it accepted every payload.
ParsePingOKForAnyPayload(request) == TRUE

\* json.Unmarshal(job.Request, &req) into mysql.PingRequest: nil or an error.
ParsePingOK(request) == request = GoodPayload

\* mysql.Module.HandlePingRequest: the hostname, or an error.
PingResults ==
    { [host |-> "myhost.local", err |-> ""],
      [host |-> "", err |-> "failed to get hostname"] }

\* APIClient.UpdateJob: PUT {baseURL}/api/v1/jobs/{jobID}, no query string.
ClientUpdateURL(jobID) == [path |-> jobID, query |-> {}]

\* The status HandleUpdateJob answers a request with, run to completion.
ServeUpdateCode(url) ==
    IF QueryGet(url) = NoID THEN 400
    ELSE IF QueryGet(url) \notin DOMAIN jobs THEN 404
    ELSE 200

NoLast == [op |-> "", id |-> NoID, outcome |-> "none", sent |-> NoOutcome, code |-> 0]

OpIdle == [pc |-> "idle", todo |-> {}]

PollInit ==
    /\ ops = [o \in Operators |-> OpIdle]
    /\ handled = NoLast

\* processJobs: client.GetPendingJobs, the pending jobs as the API lists them.
PollJobs(o) ==
    /\ ops[o].pc = "idle"
    /\ CanRLock
    /\ ops' = [ops EXCEPT ![o] =
                 [pc |-> "loop", todo |-> {jobs[id] : id \in GetPendingJobs}]]
    /\ UNCHANGED <<storeVars, handled, nonJobVars>>

\* processJobs: no module of this operator has the job's Module name.
SkipNoModule(o) ==
    /\ ops[o].pc = "loop"
    /\ \E job \in ops[o].todo :
         /\ FindModule(OperatorModules(o), job.Module) = ""
         /\ ops' = [ops EXCEPT ![o].todo = @ \ {job}]
         /\ handled' = [NoLast EXCEPT !.op = o, !.id = job.ID, !.outcome = "no module"]
    /\ UNCHANGED <<storeVars, nonJobVars>>

\* processJobs: the default case of the switch on job.Type.
SkipUnknownType(o) ==
    /\ ops[o].pc = "loop"
    /\ \E job \in ops[o].todo :
         /\ FindModule(OperatorModules(o), job.Module) # ""
         /\ job.Type # "ping"
         /\ ops' = [ops EXCEPT ![o].todo = @ \ {job}]
         /\ handled' = [NoLast EXCEPT !.op = o, !.id = job.ID, !.outcome = "unknown type"]
    /\ UNCHANGED <<storeVars, nonJobVars>>

\* The job report of processPingJob served by HandleUpdateJob.
ReportJob(o, job, sent, outcome) ==
    LET url  == ClientUpdateURL(job.ID)
        code == ServeUpdateCode(url)
        id   == QueryGet(url)
    IN /\ code # 400 => CanLock(o)
       /\ ops' = [ops EXCEPT ![o].todo = @ \ {job}]
       /\ handled' = [op |-> o, id |-> job.ID, outcome |-> outcome,
                      sent |-> sent, code |-> code]
       /\ IF code = 200
          THEN /\ jobs' = UpdateJob(jobs, id, sent[1], sent[2], sent[3])
               /\ lastDone' = [lastDone EXCEPT ![id] = sent]
               /\ firstTerminal' =
                    IF firstTerminal[id] = NoOutcome /\ Terminal(sent[1])
                    THEN [firstTerminal EXCEPT ![id] = sent]
                    ELSE firstTerminal
          ELSE UNCHANGED <<jobs, lastDone, firstTerminal>>

\* processJobs case "ping": processPingJob(ctx, client, job, module).
ProcessPingJob(o) ==
    /\ ops[o].pc = "loop"
    /\ \E job \in ops[o].todo :
         LET module == FindModule(OperatorModules(o), job.Module) IN
         /\ module # ""
         /\ job.Type = "ping"
         /\ dispatchedBy' = [dispatchedBy EXCEPT ![job.ID] = @ \cup {o}]
         /\ IF ~ParsePingOK(job.Request)
            THEN \* return fmt.Errorf("failed to parse ping request: ...")
                 /\ ops' = [ops EXCEPT ![o].todo = @ \ {job}]
                 /\ handled' = [NoLast EXCEPT !.op = o, !.id = job.ID,
                                              !.outcome = "parse error"]
                 /\ UNCHANGED <<jobs, lastDone, firstTerminal>>
            ELSE IF module # "mysql"
            THEN \* module.(*mysql.Module) panics
                 /\ ops' = [ops EXCEPT ![o].pc = "panicked"]
                 /\ UNCHANGED <<jobs, lastDone, firstTerminal, handled>>
            ELSE \E r \in PingResults :
                   IF r.err # ""
                   THEN ReportJob(o, job, <<"failed", "", r.err>>, "module error")
                   ELSE ReportJob(o, job, <<"completed", r.host, "">>, "ok")
    /\ UNCHANGED <<clock, mu, call, httpResp, nonJobVars>>

\* processJobs returns nil after the last job; main's loop calls it again.
FinishPoll(o) ==
    /\ ops[o].pc = "loop"
    /\ ops[o].todo = {}
    /\ ops' = [ops EXCEPT ![o].pc = "idle"]
    /\ UNCHANGED <<storeVars, handled, nonJobVars>>

-----------------------------------------------------------------------------
(* The privilege modules: internal/operators/mysql, kubernetes *)

\* time.Duration values, in seconds.
Minute == 60

Hour == 60 * Minute

\* time.ParseDuration on the duration strings of the model: the value, or -1
\* for a string it rejects.
ParseDuration(duration) ==
    CASE duration = "1m"  -> Minute
      [] duration = "5m"  -> 5 * Minute
      [] duration = "10m" -> 10 * Minute
      [] duration = "1h"  -> Hour
      [] duration = "48h" -> 48 * Hour
      [] OTHER            -> -1

\* parseDuration: one hour when the string does not parse.
parseDuration(duration) ==
    IF ParseDuration(duration) = -1 THEN Hour ELSE ParseDuration(duration)

\* parsePrivileges, had it taken an unknown level for "read".
parsePrivilegesDefaultingToRead(level) ==
    CASE level = "write" -> <<"SELECT", "INSERT", "UPDATE", "DELETE">>
      [] level = "admin" -> <<"ALL PRIVILEGES">>
      [] OTHER           -> <<"SELECT">>

\* parsePrivileges: the MySQL privileges of a level; <<>> is the error.
parsePrivileges(level) ==
    CASE level = "read"  -> <<"SELECT">>
      [] level = "write" -> <<"SELECT", "INSERT", "UPDATE", "DELETE">>
      [] level = "admin" -> <<"ALL PRIVILEGES">>
      [] OTHER           -> <<>>

\* parseRole: the Kubernetes role of a level; "" is the error.
parseRole(level) ==
    CASE level = "read"  -> "view"
      [] level = "write" -> "edit"
      [] level = "admin" -> "admin"
      [] OTHER           -> ""

\* fmt.Sprintf("apollo_%s_%s", request.UserID, request.ID)
Username(request) == <<"apollo", request.UserID, request.ID>>

NoMetadata == [id |-> "", name |-> <<>>, privileges |-> <<>>]

\* A Metadata map the caller sent with the request.
CallerMetadata == [id |-> "ticket-7", name |-> <<>>, privileges |-> <<>>]

\* mysql Module.HandlePrivilegeRequest. failAt is the GRANT statement whose
\* ExecContext fails (a refused statement, a cancelled context), 0 if none
\* does. The result: the error, the statements that ran, request.Metadata.
MysqlHandlePrivilegeRequestIgnoringErrors(request, failAt) ==
    LET privileges == parsePrivileges(request.Level) IN
    IF privileges = <<>>
    THEN [err |-> "invalid privilege level", ran |-> {}, metadata |-> request.Metadata]
    ELSE [err |-> "",
          ran |-> {<<Username(request), privileges[i]>> :
                     i \in {k \in 1 .. Len(privileges) : failAt = 0 \/ k < failAt}},
          metadata |-> [id |-> request.ID, name |-> Username(request),
                        privileges |-> privileges]]

MysqlHandlePrivilegeRequestMetadataFirst(request, failAt) ==
    LET privileges == parsePrivileges(request.Level)
        grant == [id |-> request.ID, name |-> Username(request), privileges |-> privileges]
    IN
    IF privileges = <<>>
    THEN [err |-> "invalid privilege level", ran |-> {}, metadata |-> request.Metadata]
    ELSE IF failAt \in 1 .. Len(privileges)
    THEN [err |-> "failed to grant privileges",
          ran |-> {<<Username(request), privileges[i]>> : i \in 1 .. (failAt - 1)},
          metadata |-> grant]
    ELSE [err |-> "",
          ran |-> {<<Username(request), privileges[i]>> : i \in 1 .. Len(privileges)},
          metadata |-> grant]

MysqlHandlePrivilegeRequest(request, failAt) ==
    LET privileges == parsePrivileges(request.Level) IN
    IF privileges = <<>>
    THEN [err |-> "invalid privilege level", ran |-> {}, metadata |-> request.Metadata]
    ELSE IF failAt \in 1 .. Len(privileges)
    THEN [err |-> "failed to grant privileges",
          ran |-> {<<Username(request), privileges[i]>> : i \in 1 .. (failAt - 1)},
          metadata |-> request.Metadata]
    ELSE [err |-> "",
          ran |-> {<<Username(request), privileges[i]>> : i \in 1 .. Len(privileges)},
          metadata |-> [id |-> request.ID, name |-> Username(request),
                        privileges |-> privileges]]

\* kubernetes Module.HandlePrivilegeRequest: createRoleAndBinding always
\* returns "not implemented".
KubernetesHandlePrivilegeRequest(request) ==
    IF parseRole(request.Level) = ""
    THEN [err |-> "invalid privilege level", ran |-> {}, metadata |-> request.Metadata]
    ELSE [err |-> "failed to create role and binding", ran |-> {},
          metadata |-> request.Metadata]

\* Module.HandlePrivilegeRequest of the module with the given name.
ModuleHandlePrivilegeRequest(module, request, failAt) ==
    IF module = "mysql"
    THEN MysqlHandlePrivilegeRequest(request, failAt)
    ELSE KubernetesHandlePrivilegeRequest(request)

\* The statements whose failure a HandlePrivilegeRequest call can meet.
FailPoints(module, request) ==
    IF module = "mysql" THEN 0 .. Len(parsePrivileges(request.Level)) ELSE {0}

\* Module.RevokePrivilege of the mysql and kubernetes modules: the error.
ModuleRevokePrivilege(module, grantID) == "not implemented"

\* Module.HealthCheck: nil ("") or the error of the ping / namespace listing.
HealthErrors(module) ==
    IF module = "mysql"
    THEN {"", "database health check failed"}
    ELSE {"", "Kubernetes health check failed"}

-----------------------------------------------------------------------------
(* The operator's HTTP handlers (cmd/operator/main.go) and the API's health
   handler (internal/api/handlers.go) *)

\* The module lists registry.GetEnabledModules returns to main.
EnabledLists ==
    { <<"mysql">>, <<"mysql", "kubernetes">>, <<"kubernetes", "mysql">>, <<>> }

\* The privilege requests POSTed to /privilege/request.
PrivilegeRequests ==
    [ID : {"r1"}, UserID : {"u1"},
     ResourceID : {"mysql", "kubernetes", "mysql-1"},
     Level : {"read", "write", "admin", "root"},
     Duration : {"1h", "1m"}, Reason : {"", "debug"},
     Metadata : {NoMetadata, CallerMetadata}]

NoRequest ==
    [ID |-> "", UserID |-> "", ResourceID |-> "", Level |-> "", Duration |-> "",
     Reason |-> "", Metadata |-> NoMetadata]

GrantIDs == {"r1", "unknown"}

NoResponse ==
    [handler |-> "", code |-> 0, status |-> "", metadata |-> NoMetadata,
     errors |-> <<>>, probes |-> <<>>, modules |-> <<>>]

HTTPInit ==
    /\ enabled \in EnabledLists
    /\ granted = {}
    /\ invoked = NoRequest
    /\ resp = NoResponse

HTTPIdle ==
    /\ enabled = <<>>
    /\ granted = {}
    /\ invoked = NoRequest
    /\ resp = NoResponse

\* handlePrivilegeRequest: 404 without a module named request.ResourceID,
\* 500 with the module's error when the module fails, else 200 with the
\* request; resp.metadata is request.Metadata as the module left it.
handlePrivilegeRequest(request) ==
    LET module == FindModule(enabled, request.ResourceID) IN
    /\ IF module = ""
       THEN /\ resp' = [NoResponse EXCEPT !.handler = "request", !.code = 404]
            /\ UNCHANGED <<granted, invoked>>
       ELSE \E failAt \in FailPoints(module, request) :
              LET r == ModuleHandlePrivilegeRequest(module, request, failAt) IN
              /\ invoked' = request
              /\ granted' = granted \cup r.ran
              /\ resp' = [NoResponse EXCEPT
                            !.handler = "request",
                            !.code = IF r.err # "" THEN 500 ELSE 200,
                            !.errors = IF r.err # "" THEN << <<module, r.err>> >>
                                       ELSE <<>>,
                            !.metadata = r.metadata]
    /\ UNCHANGED <<enabled, nonHTTPVars>>

\* The loop of handlePrivilegeRevoke, had it returned at the first error.
RevokeErrorsAbortingOnFirst(modules, grantID) ==
    IF modules = <<>> THEN <<>>
    ELSE LET failing == {i \in 1 .. Len(modules) :
                           ModuleRevokePrivilege(modules[i], grantID) # ""}
         IN IF failing = {} THEN <<>>
            ELSE LET first == CHOOSE i \in failing : \A k \in failing : i <= k
                 IN << <<modules[first],
                         ModuleRevokePrivilege(modules[first], grantID)>> >>

\* The errors of RevokePrivilege over the modules, "module: error" each.
RECURSIVE RevokeErrors(_, _)
RevokeErrors(modules, grantID) ==
    IF modules = <<>> THEN <<>>
    ELSE LET err == ModuleRevokePrivilege(Head(modules), grantID) IN
         (IF err # "" THEN << <<Head(modules), err>> >> ELSE <<>>)
           \o RevokeErrors(Tail(modules), grantID)

\* handlePrivilegeRevoke: RevokePrivilege on every module; 500 with the
\* errors if any module failed, else 200.
handlePrivilegeRevoke(grantID) ==
    LET errors == RevokeErrors(enabled, grantID) IN
    /\ resp' = [NoResponse EXCEPT
                  !.handler = "revoke",
                  !.code = IF Len(errors) > 0 THEN 500 ELSE 200,
                  !.errors = errors,
                  !.metadata = [NoMetadata EXCEPT !.id = grantID]]
    /\ UNCHANGED <<enabled, granted, invoked, nonHTTPVars>>

\* The map a health handler fills, module.Name() -> text, a later module of
\* the same name overwriting an earlier one.
HealthMap(modules, probes, prefix) ==
    [name \in {modules[i] : i \in 1 .. Len(modules)} |->
       LET last == CHOOSE i \in 1 .. Len(modules) :
                     /\ modules[i] = name
                     /\ \A k \in (i + 1) .. Len(modules) : modules[k] # name
       IN IF probes[last] = "" THEN <<"healthy">> ELSE <<prefix, probes[last]>>]

\* The HealthCheck results one health request meets, one per enabled module.
Probes == {p \in [1 .. Len(enabled) -> {"", "database health check failed",
                                         "Kubernetes health check failed"}] :
             \A i \in 1 .. Len(enabled) : p[i] \in HealthErrors(enabled[i])}

\* The operator's handleHealth: always 200 and status "ok".
handleHealth(probes) ==
    /\ resp' = [NoResponse EXCEPT
                  !.handler = "health", !.code = 200, !.status = "ok",
                  !.probes = probes,
                  !.modules = HealthMap(enabled, probes, "error")]
    /\ UNCHANGED <<enabled, granted, invoked, nonHTTPVars>>

\* The API's Handler.HandleHealthCheck: "degraded" and 503 if a module failed.
HandleHealthCheck(probes) ==
    LET degraded == \E i \in 1 .. Len(enabled) : probes[i] # "" IN
    /\ resp' = [NoResponse EXCEPT
                  !.handler = "api health",
                  !.code = IF degraded THEN 503 ELSE 200,
                  !.status = IF degraded THEN "degraded" ELSE "healthy",
                  !.probes = probes,
                  !.modules = HealthMap(enabled, probes, "unhealthy")]
    /\ UNCHANGED <<enabled, granted, invoked, nonHTTPVars>>

-----------------------------------------------------------------------------
(* The rule engine: internal/rules/security.go *)

MaxDuration == 24 * Hour

MinDuration == 5 * Minute

\* DefaultRuleEngine.EvaluateRequest: the error, "" for nil. Times are in
\* seconds; ExpiresAt.Sub(RequestedAt) is their difference.
EvaluateRequestExclusiveMax(request) ==
    IF request.ExpiresAt - request.RequestedAt >= MaxDuration
    THEN "privilege duration exceeds maximum allowed time"
    ELSE IF request.ExpiresAt - request.RequestedAt < MinDuration
    THEN "privilege duration is less than minimum allowed time"
    ELSE IF request.Reason = ""
    THEN "reason is required for privilege request"
    ELSE ""

\* The rule check, had it answered every rejection with its first message.
EvaluateRequestNamingFirstRule(request) ==
    IF \/ request.ExpiresAt - request.RequestedAt > MaxDuration
       \/ request.ExpiresAt - request.RequestedAt < MinDuration
       \/ request.Reason = ""
    THEN "privilege duration exceeds maximum allowed time"
    ELSE ""

EvaluateRequest(request) ==
    IF request.ExpiresAt - request.RequestedAt > MaxDuration
    THEN "privilege duration exceeds maximum allowed time"
    ELSE IF request.ExpiresAt - request.RequestedAt < MinDuration
    THEN "privilege duration is less than minimum allowed time"
    ELSE IF request.Reason = ""
    THEN "reason is required for privilege request"
    ELSE ""

\* The durations requested, around the two limits.
RequestedDurations ==
    {-1, 0, MinDuration - 1, MinDuration, MinDuration + 1, Hour,
     MaxDuration - 1, MaxDuration, MaxDuration + 1, 2 * MaxDuration}

RequestTimes == {0, 7, Hour}

\* The models.PrivilegeRequest values handed to the rule engine.
ModelRequests ==
    {[RequestedAt |-> t, ExpiresAt |-> t + d, Reason |-> reason] :
       t \in RequestTimes, d \in RequestedDurations, reason \in {"", "debug"}}

NoModelRequest == [RequestedAt |-> 0, ExpiresAt |-> 0, Reason |-> ""]

RulesIdle ==
    /\ ruleRequest = NoModelRequest
    /\ ruleVerdict = "no request"

\* A caller builds a request ...
NewRequest(request) ==
    /\ ruleRequest' = request
    /\ ruleVerdict' = "unevaluated"
    /\ UNCHANGED nonRuleVars

\* ... and hands it to the rule engine.
Evaluate ==
    /\ ruleVerdict = "unevaluated"
    /\ ruleVerdict' = EvaluateRequest(ruleRequest)
    /\ UNCHANGED <<ruleRequest, nonRuleVars>>

-----------------------------------------------------------------------------
(* The privilege lifecycle manager of specification 4.3, over the modules and
   the rule engine of the code *)

MaxTicks == 3

\* The period of the sweep timer.
TickStep == 5 * Minute

\* The last reading of the clock; grants are created to expire before it.
Horizon == MaxTicks * TickStep

RequestIDs == {"r1", "r2"}

\* The requests handed to Submit.
LifeRequests ==
    [ID : RequestIDs, UserID : {"u1"}, ResourceID : {"mysql", "kubernetes"},
     Level : {"write", "root"}, Duration : {"1m", "5m"}, Reason : {"", "debug"},
     Metadata : {NoMetadata}]

NoRevoke == [by |-> "", grant |-> "", at |-> 0, err |-> "", cycle |-> 0]

LifeIdle ==
    /\ now = 0
    /\ requests = <<>>
    /\ grants = <<>>
    /\ lastRevoke = NoRevoke

\* The rows of a table with the given ID / RequestID.
RequestRows(id) == {i \in 1 .. Len(requests) : requests[i].request.ID = id}

GrantRows(requestID) == {i \in 1 .. Len(grants) : grants[i].RequestID = requestID}

\* Submit: the rule engine checks the duration and the Reason; a violation
\* makes the request Denied, without any side effect.
Submit(request) ==
    LET verdict == EvaluateRequest([RequestedAt |-> now,
                                    ExpiresAt |-> now + parseDuration(request.Duration),
                                    Reason |-> request.Reason]) IN
    /\ RequestRows(request.ID) = {}
    /\ requests' = Append(requests,
                          [request |-> request, RequestedAt |-> now,
                           Status |-> IF verdict = "" THEN "pending" ELSE "denied"])
    /\ UNCHANGED <<now, grants, lastRevoke, httpVars, nonLifeVars>>

\* Approve: Module.HandlePrivilegeRequest; on success the request is Approved
\* and one Grant with ExpiresAt = now + Duration is created, on failure the
\* request is Failed and no Grant is created.
Approve(i) ==
    LET request == requests[i].request
        module == FindModule(enabled, request.ResourceID) IN
    /\ requests[i].Status = "pending"
    /\ now + parseDuration(request.Duration) < Horizon
    /\ IF module = ""
       THEN /\ requests' = [requests EXCEPT ![i].Status = "failed"]
            /\ UNCHANGED <<grants, granted>>
       ELSE \E failAt \in FailPoints(module, request) :
              LET r == ModuleHandlePrivilegeRequest(module, request, failAt) IN
              /\ granted' = granted \cup r.ran
              /\ IF r.err = ""
                 THEN /\ requests' = [requests EXCEPT ![i].Status = "approved",
                                                      ![i].request.Metadata = r.metadata]
                      /\ grants' = Append(grants,
                                          [ID |-> request.ID, RequestID |-> request.ID,
                                           ResourceID |-> request.ResourceID,
                                           GrantedAt |-> now,
                                           ExpiresAt |-> now + parseDuration(request.Duration),
                                           Status |-> "active"])
                 ELSE /\ requests' = [requests EXCEPT ![i].Status = "failed"]
                      /\ UNCHANGED grants
    /\ UNCHANGED <<now, lastRevoke, enabled, invoked, resp, nonLifeVars>>

\* One revoke of the Grant table's row i: Module.RevokePrivilege; success or
\* NotFound makes the Grant Revoked, any other error leaves it as it is.
RevokeGrant(table, i) ==
    LET module == FindModule(enabled, table[i].ResourceID)
        err == IF module = "" THEN "not found"
               ELSE ModuleRevokePrivilege(module, table[i].ID) IN
    IF err \in {"", "not found"}
    THEN [table EXCEPT ![i].Status = "revoked"]
    ELSE table

\* Revoke(grantID) on an Active grant.
Revoke(i) ==
    /\ grants[i].Status = "active"
    /\ grants' = RevokeGrant(grants, i)
    /\ lastRevoke' = [by |-> "revoke", grant |-> grants[i].ID, at |-> now,
                      err |-> IF grants'[i].Status = "revoked" THEN "" ELSE "retryable",
                      cycle |-> lastRevoke.cycle]
    /\ UNCHANGED <<now, requests, httpVars, nonLifeVars>>

\* The rows Sweep scans: Active grants with now > ExpiresAt.
Expired == {i \in 1 .. Len(grants) : grants[i].Status = "active" /\ now > grants[i].ExpiresAt}

RECURSIVE SweepRows(_, _)
SweepRows(table, rows) ==
    IF rows = {} THEN table
    ELSE LET i == CHOOSE k \in rows : \A m \in rows : k <= m IN
         SweepRows(RevokeGrant(table, i), rows \ {i})

\* Sweep: revokes each expired Active grant; a failure leaves the grant for
\* the next cycle.
Sweep ==
    /\ Expired # {}
    /\ grants' = SweepRows(grants, Expired)
    /\ lastRevoke' = [by |-> "sweep", grant |-> grants[CHOOSE i \in Expired : TRUE].ID,
                      at |-> now,
                      err |-> IF \E i \in Expired : grants'[i].Status = "active"
                              THEN "retryable" ELSE "",
                      cycle |-> 1 - lastRevoke.cycle]
    /\ UNCHANGED <<now, requests, httpVars, nonLifeVars>>

\* The sweep timer's period passes.
Tick ==
    /\ now < Horizon
    /\ now' = now + TickStep
    /\ UNCHANGED <<requests, grants, lastRevoke, httpVars, nonLifeVars>>

-----------------------------------------------------------------------------
(* The module registries: internal/operators ModuleRegistry, cmd/api/modules
   Registry, cmd/operator/modules Registry. Strings are sequences of
   characters. *)

MaxCSVLen == 3

\* The characters of module names and of enabled-modules lists.
Chars == {"m", "M", "k", " ", ","}

\* unicode.ToLower on the characters of the model.
Lower(c) == IF c = "M" THEN "m" ELSE c

\* strings.ToLower
ToLower(s) == [i \in 1 .. Len(s) |-> Lower(s[i])]

\* strings.TrimSpace
RECURSIVE TrimLeft(_)
TrimLeft(s) == IF s # <<>> /\ Head(s) = " " THEN TrimLeft(Tail(s)) ELSE s

RECURSIVE TrimRight(_)
TrimRight(s) ==
    IF s # <<>> /\ s[Len(s)] = " " THEN TrimRight(SubSeq(s, 1, Len(s) - 1)) ELSE s

TrimSpace(s) == TrimRight(TrimLeft(s))

\* strings.Split(s, ","): the pieces between the commas, at least one piece.
RECURSIVE Split(_)
Split(s) ==
    IF \E i \in 1 .. Len(s) : s[i] = ","
    THEN LET i == CHOOSE k \in 1 .. Len(s) :
                    s[k] = "," /\ \A m \in 1 .. (k - 1) : s[m] # ","
         IN <<SubSeq(s, 1, i - 1)>> \o Split(SubSeq(s, i + 1, Len(s)))
    ELSE <<s>>

\* The module values handed to Register: Name() and the instance.
Modules == [Name : {<<"m">>, <<"M">>, <<"k">>}, inst : {1, 2}]

NoModule == [Name |-> <<>>, inst |-> 0]

RECURSIVE StringsUpTo(_)
StringsUpTo(n) ==
    IF n = 0 THEN {<<>>}
    ELSE LET shorter == StringsUpTo(n - 1) IN
         shorter \cup {Append(s, c) : s \in {x \in shorter : Len(x) = n - 1}, c \in Chars}

\* The enabled-modules lists of the configuration.
CSVs == StringsUpTo(MaxCSVLen)

RegistryKinds == {"internal", "api", "operator"}

\* The result of a registry call: the registry after it, the error ("" is
\* nil, "none" for a method without an error result), the modules returned.
ModuleRegistryRegister(reg, module) ==
    LET name == ToLower(module.Name) IN
    IF name \in DOMAIN reg
    THEN [reg |-> reg, err |-> "module is already registered"]
    ELSE [reg |-> Put(reg, name, module), err |-> ""]

APIRegistryRegister(reg, module) ==
    [reg |-> Put(reg, module.Name, module), err |-> "none"]

OperatorRegistryRegister(reg, module) ==
    IF module.Name \in DOMAIN reg
    THEN [reg |-> reg, err |-> "module already registered"]
    ELSE [reg |-> Put(reg, module.Name, module), err |-> ""]

\* ModuleRegistry.GetModule: the module, or NoModule for the not-found error.
ModuleRegistryGetModule(reg, name) ==
    IF ToLower(name) \in DOMAIN reg THEN reg[ToLower(name)] ELSE NoModule

\* The loop of ModuleRegistry.GetEnabledModules over the split names.
RECURSIVE ModuleRegistryResolve(_, _, _)
ModuleRegistryResolve(reg, names, acc) ==
    IF names = <<>> THEN [modules |-> acc, err |-> ""]
    ELSE LET name == TrimSpace(Head(names)) IN
         IF name = <<>> THEN ModuleRegistryResolve(reg, Tail(names), acc)
         ELSE IF ModuleRegistryGetModule(reg, name) = NoModule
         THEN [modules |-> <<>>, err |-> "failed to get module: not found"]
         ELSE ModuleRegistryResolve(reg, Tail(names),
                                    Append(acc, ModuleRegistryGetModule(reg, name)))

ModuleRegistryGetEnabledModulesPrepending(reg, csv) ==
    IF csv = <<>> THEN [modules |-> <<>>, err |-> "no modules enabled"]
    ELSE LET r == ModuleRegistryResolve(reg, Split(csv), <<>>) IN
         [r EXCEPT !.modules = [i \in 1 .. Len(r.modules) |->
                                  r.modules[Len(r.modules) + 1 - i]]]

\* GetEnabledModules, had it refused a list that names no module.
ModuleRegistryGetEnabledModulesRejectingNoNames(reg, csv) ==
    LET r == ModuleRegistryResolve(reg, Split(csv), <<>>) IN
    IF csv = <<>> \/ (r.err = "" /\ r.modules = <<>>)
    THEN [modules |-> <<>>, err |-> "no modules enabled"]
    ELSE r

ModuleRegistryGetEnabledModules(reg, csv) ==
    IF csv = <<>> THEN [modules |-> <<>>, err |-> "no modules enabled"]
    ELSE ModuleRegistryResolve(reg, Split(csv), <<>>)

\* The loop of the cmd/api and cmd/operator Registry.GetEnabledModules.
RECURSIVE RegistryResolve(_, _, _)
RegistryResolve(reg, names, acc) ==
    IF names = <<>> THEN [modules |-> acc, err |-> "none"]
    ELSE LET name == TrimSpace(Head(names)) IN
         IF name \in DOMAIN reg
         THEN RegistryResolve(reg, Tail(names), Append(acc, reg[name]))
         ELSE RegistryResolve(reg, Tail(names), acc)

RegistryGetEnabledModules(reg, csv) ==
    IF csv = <<>> THEN [modules |-> <<>>, err |-> "none"]
    ELSE RegistryResolve(reg, Split(csv), <<>>)

NoCall ==
    [op |-> "", module |-> NoModule, csv |-> <<>>, err |-> "", out |-> <<>>,
     before |-> <<>>]

RegistryIdle ==
    /\ registryKind = "internal"
    /\ registered = <<>>
    /\ regCall = NoCall

\* Register on the registry of this kind; main registers its modules before
\* it resolves the enabled ones.
Register(module) ==
    LET r == CASE registryKind = "internal" -> ModuleRegistryRegister(registered, module)
               [] registryKind = "api"      -> APIRegistryRegister(registered, module)
               [] OTHER                     -> OperatorRegistryRegister(registered, module)
    IN
    /\ regCall.op # "GetEnabledModules"
    /\ registered' = r.reg
    /\ regCall' = [NoCall EXCEPT !.op = "Register", !.module = module,
                                 !.err = r.err, !.before = registered]
    /\ UNCHANGED <<registryKind, nonRegVars>>

\* GetEnabledModules on the registry of this kind, once, at the end of the
\* registrations.
GetEnabledModules(csv) ==
    LET r == IF registryKind = "internal"
             THEN ModuleRegistryGetEnabledModules(registered, csv)
             ELSE RegistryGetEnabledModules(registered, csv)
    IN
    /\ regCall.op # "GetEnabledModules"
    /\ regCall' = [NoCall EXCEPT !.op = "GetEnabledModules", !.csv = csv,
                                 !.err = r.err, !.out = r.modules,
                                 !.before = registered]
    /\ UNCHANGED <<registryKind, registered, nonRegVars>>

-----------------------------------------------------------------------------
(* The JobStore's methods as whole calls: each holds s.mu from its first
   statement to its return *)

\* The (status, result, error) arguments of the UpdateJob calls: the status
\* is whatever string the body of the PUT carries.
CallUpdateInputs ==
    UpdateInputs \cup { <<"completed", "db-2.local", "">>,
                        <<"pending", "", "">>,
                        <<"running", "", "">> }

\* The orders in which a range over a Go map visits the given elements.
RangeOrders(S) ==
    {order \in [1 .. Cardinality(S) -> S] :
       \A i, j \in 1 .. Cardinality(S) : i # j => order[i] # order[j]}

NoStoreCall ==
    [op |-> "", id |-> NoID, args |-> NoOutcome, before |-> <<>>, out |-> <<>>,
     err |-> ""]

CallsIdle == storeCall = NoStoreCall

\* store.CreateJob(module, jobType, request): returns the job it stored.
CallCreateJob(t, module, jobType, request) ==
    /\ StoreJob(t, module, jobType, request)
    /\ storeCall' = [NoStoreCall EXCEPT
                       !.op = "CreateJob", !.id = generateJobID(t), !.before = jobs,
                       !.out = <<NewJob(generateJobID(t), module, jobType, request)>>]
    /\ UNCHANGED <<mu, call, httpResp, pollVars, nonCallVars>>

\* store.UpdateJob(id, status, result, errMsg) on an unknown ID.
UpdateJobNotFoundUpserting(id, args) ==
    /\ jobs' = Put(jobs, id, [NewJob(id, "", "", "") EXCEPT
                                !.Status = args[1], !.Result = args[2], !.Error = args[3]])
    /\ firstTerminal' = Put(firstTerminal, id, NoOutcome)
    /\ lastDone' = Put(lastDone, id, args)
    /\ storeCall' = [NoStoreCall EXCEPT
                       !.op = "UpdateJob", !.id = id, !.args = args, !.before = jobs]

UpdateJobNotFound(id, args) ==
    /\ storeCall' = [NoStoreCall EXCEPT
                       !.op = "UpdateJob", !.id = id, !.args = args, !.before = jobs,
                       !.err = "job not found"]
    /\ UNCHANGED <<jobs, firstTerminal, lastDone>>

\* store.UpdateJob(id, status, result, errMsg)
CallUpdateJob(id, args) ==
    /\ CanLock("api")
    /\ IF id \notin DOMAIN jobs
       THEN UpdateJobNotFound(id, args)
       ELSE /\ jobs' = UpdateJob(jobs, id, args[1], args[2], args[3])
            /\ lastDone' = [lastDone EXCEPT ![id] = args]
            /\ firstTerminal' =
                 IF firstTerminal[id] = NoOutcome /\ Terminal(args[1])
                 THEN [firstTerminal EXCEPT ![id] = args]
                 ELSE firstTerminal
            /\ storeCall' = [NoStoreCall EXCEPT
                               !.op = "UpdateJob", !.id = id, !.args = args,
                               !.before = jobs]
    /\ UNCHANGED <<clock, mu, call, httpResp, dispatchedBy, pollVars, nonCallVars>>

\* store.GetPendingJobs(): the pending jobs, appended in the order the range
\* over s.jobs visits them.
CallGetPendingJobs ==
    /\ CanRLock
    /\ \E order \in RangeOrders({jobs[id] : id \in GetPendingJobs}) :
         storeCall' = [NoStoreCall EXCEPT
                         !.op = "GetPendingJobs", !.before = jobs, !.out = order]
    /\ UNCHANGED <<jobVars, nonCallVars>>

-----------------------------------------------------------------------------
(* The operator's shutdown: main of the operator with the poll loop *)

MaxSignals == 2

MaxInflight == 3

\* main has started the poll goroutine and the server, and waits on sigChan.
ShutdownIdle ==
    /\ sigChan = 0
    /\ signalsSent = 0
    /\ pollLoop = "select"
    /\ mainPC = "wait"
    /\ inflight = 0
    /\ interrupted = FALSE

\* The process has not exited.
Alive == mainPC \in {"wait", "shutdown"}

\* The poll goroutine is inside processJobs.
Processing == pollLoop \in {"processJobs", "handling", "reporting"}

\* A SIGINT or SIGTERM arrives: signal.Notify passes it to sigChan without
\* blocking, and drops it when the buffer is full.
Signal ==
    /\ Alive
    /\ signalsSent < MaxSignals
    /\ signalsSent' = signalsSent + 1
    /\ sigChan' = IF sigChan = 0 THEN 1 ELSE sigChan
    /\ UNCHANGED <<pollLoop, mainPC, inflight, interrupted, nonShutVars>>

\* The poll goroutine's select: a buffered signal is received and the
\* goroutine returns, else the default case runs processJobs.
PollSelect ==
    /\ Alive
    /\ pollLoop = "select"
    /\ IF sigChan > 0
       THEN sigChan' = sigChan - 1 /\ pollLoop' = "stopped"
       ELSE sigChan' = sigChan /\ pollLoop' = "processJobs"
    /\ UNCHANGED <<signalsSent, mainPC, inflight, interrupted, nonShutVars>>

\* processJobs: client.GetPendingJobs returned; a job to handle, or none
\* (or an error), and the iteration ends.
PollList ==
    /\ Alive
    /\ pollLoop = "processJobs"
    /\ pollLoop' \in {"handling", "select"}
    /\ UNCHANGED <<sigChan, signalsSent, mainPC, inflight, interrupted, nonShutVars>>

\* processJobs: the module's handler returned.
PollHandle ==
    /\ Alive
    /\ pollLoop = "handling"
    /\ pollLoop' = "reporting"
    /\ UNCHANGED <<sigChan, signalsSent, mainPC, inflight, interrupted, nonShutVars>>

\* processJobs: client.UpdateJob returned, the iteration ends.
PollReport ==
    /\ Alive
    /\ pollLoop = "reporting"
    /\ pollLoop' = "select"
    /\ UNCHANGED <<sigChan, signalsSent, mainPC, inflight, interrupted, nonShutVars>>

\* The server accepts a request (until Shutdown is called) ...
ServerAccept ==
    /\ mainPC = "wait"
    /\ inflight < MaxInflight
    /\ inflight' = inflight + 1
    /\ UNCHANGED <<sigChan, signalsSent, pollLoop, mainPC, interrupted, nonShutVars>>

\* ... and answers it.
ServerRespond ==
    /\ Alive
    /\ inflight > 0
    /\ inflight' = inflight - 1
    /\ UNCHANGED <<sigChan, signalsSent, pollLoop, mainPC, interrupted, nonShutVars>>

\* main's <-sigChan receives a buffered signal; main calls server.Shutdown.
MainReceive ==
    /\ mainPC = "wait"
    /\ sigChan > 0
    /\ sigChan' = sigChan - 1
    /\ mainPC' = "shutdown"
    /\ UNCHANGED <<signalsSent, pollLoop, inflight, interrupted, nonShutVars>>

\* The process exits, by main's return or by log.Fatalf: every goroutine
\* ends where it is.
Exit(how) ==
    /\ mainPC' = how
    /\ interrupted' = Processing
    /\ pollLoop' = IF pollLoop = "stopped" THEN "stopped" ELSE "killed"
    /\ inflight' = 0
    /\ UNCHANGED <<sigChan, signalsSent, nonShutVars>>

\* server.Shutdown returned nil: no request is in flight; main returns.
MainExit ==
    /\ mainPC = "shutdown"
    /\ inflight = 0
    /\ Exit("exited")

\* server.Shutdown's 5 s context expired with requests in flight: log.Fatalf.
MainFatal ==
    /\ mainPC = "shutdown"
    /\ inflight > 0
    /\ Exit("fatal")

-----------------------------------------------------------------------------
(* Operator liveness: the operators table of the control plane's mysql
   module *)

OperatorIDs == {"op-a", "op-b"}

\* The timeouts GetInactiveOperators is called with, in seconds.
Timeouts == {1, 2}

\* The timestamps a heartbeat carries: the operator's own clock reading.
Timestamps == 0 .. MaxDBClock

\* No row with this primary key.
NoRow == [status |-> "", last_seen |-> 0]

NoLiveCall ==
    [op |-> "", id |-> "", err |-> "", out |-> {}, at |-> 0, timeout |-> 0,
     timestamp |-> 0, before |-> <<>>]

LivenessIdle ==
    /\ operatorsTable = [id \in OperatorIDs |-> NoRow]
    /\ dbNow = 0
    /\ liveCall = NoLiveCall

\* INSERT ... ON DUPLICATE KEY UPDATE status = 'active',
\* last_seen = CURRENT_TIMESTAMP.
RegisterOperator(id) ==
    /\ operatorsTable' = [operatorsTable EXCEPT
                            ![id] = [status |-> "active", last_seen |-> dbNow]]
    /\ liveCall' = [NoLiveCall EXCEPT !.op = "RegisterOperator", !.id = id,
                                      !.at = dbNow, !.before = operatorsTable]
    /\ UNCHANGED <<dbNow, nonLiveVars>>

\* The rows an UPDATE ... WHERE id = ? reports as affected: the driver is
\* opened without clientFoundRows, so a matched row that already holds the
\* new values counts as 0.
RowsAffected(table, id, row) ==
    IF table[id] # NoRow /\ table[id] # row THEN 1 ELSE 0

\* UPDATE operators SET status = 'active', last_seen = ? WHERE id = ?;
\* "operator not found" when no row was affected.
UpdateOperatorHealthNotFound(id, affected) ==
    IF affected = 0 THEN "operator not found: " \o id ELSE ""

\* UpdateOperatorHealth, had it kept the later of the stored and the sent
\* timestamp.
UpdateOperatorHealthKeepingLatest(id, timestamp) ==
    LET latest == IF operatorsTable[id].last_seen > timestamp
                  THEN operatorsTable[id].last_seen ELSE timestamp
        row == [status |-> "active", last_seen |-> latest]
    IN
    /\ operatorsTable' = IF operatorsTable[id] # NoRow
                         THEN [operatorsTable EXCEPT ![id] = row]
                         ELSE operatorsTable
    /\ liveCall' = [NoLiveCall EXCEPT
                      !.op = "UpdateOperatorHealth", !.id = id, !.at = dbNow,
                      !.timestamp = timestamp,
                      !.err = UpdateOperatorHealthNotFound(
                                  id, RowsAffected(operatorsTable, id, row)),
                      !.before = operatorsTable]
    /\ UNCHANGED <<dbNow, nonLiveVars>>

UpdateOperatorHealth(id, timestamp) ==
    LET row == [status |-> "active", last_seen |-> timestamp] IN
    /\ operatorsTable' = IF operatorsTable[id] # NoRow
                         THEN [operatorsTable EXCEPT ![id] = row]
                         ELSE operatorsTable
    /\ liveCall' = [NoLiveCall EXCEPT
                      !.op = "UpdateOperatorHealth", !.id = id, !.at = dbNow,
                      !.timestamp = timestamp,
                      !.err = UpdateOperatorHealthNotFound(
                                  id, RowsAffected(operatorsTable, id, row)),
                      !.before = operatorsTable]
    /\ UNCHANGED <<dbNow, nonLiveVars>>

\* UPDATE operators SET status = 'inactive' WHERE id = ?; the result of the
\* statement is dropped and only its error is returned.
MarkOperatorInactive(id) ==
    /\ operatorsTable' = IF operatorsTable[id] # NoRow
                         THEN [operatorsTable EXCEPT ![id].status = "inactive"]
                         ELSE operatorsTable
    /\ liveCall' = [NoLiveCall EXCEPT !.op = "MarkOperatorInactive", !.id = id,
                                      !.at = dbNow, !.before = operatorsTable]
    /\ UNCHANGED <<dbNow, nonLiveVars>>

\* SELECT id FROM operators WHERE status = 'active'
\* AND last_seen < DATE_SUB(NOW(), INTERVAL ? SECOND).
InactiveOperators(table, at, timeout) ==
    {id \in OperatorIDs :
       /\ table[id] # NoRow
       /\ table[id].status = "active"
       /\ table[id].last_seen < at - timeout}

GetInactiveOperators(timeout) ==
    /\ liveCall' = [NoLiveCall EXCEPT
                      !.op = "GetInactiveOperators", !.timeout = timeout,
                      !.at = dbNow,
                      !.out = InactiveOperators(operatorsTable, dbNow, timeout),
                      !.before = operatorsTable]
    /\ UNCHANGED <<operatorsTable, dbNow, nonLiveVars>>

\* A second passes on the database's clock.
DBTick ==
    /\ dbNow < MaxDBClock
    /\ dbNow' = dbNow + 1
    /\ UNCHANGED <<operatorsTable, liveCall, nonLiveVars>>

-----------------------------------------------------------------------------
(* The CLI waiting for a job: cmd/cli/api.go WaitForJobCompletion *)

NoWait == [pc |-> "idle", id |-> NoID, job |-> NoID, err |-> "", ticks |-> 0]

WaitIdle == waiter = NoWait

\* WaitForJobCompletion(ctx, jobID, pollInterval) is called with the ID
\* CreatePingJob returned.
WaitStart(id) ==
    /\ waiter.pc = "idle"
    /\ id \in DOMAIN jobs
    /\ waiter' = [NoWait EXCEPT !.pc = "waiting", !.id = id]
    /\ UNCHANGED <<jobVars, nonWaitVars>>

\* case <-ticker.C: GetJob, then the switch on job.Status; any other status
\* leaves the loop running (ticks is the parity of the ticks so far).
WaitTick ==
    /\ waiter.pc = "waiting"
    /\ CanRLock
    /\ LET job == GetJob(waiter.id) IN
       waiter' = CASE job.Status = "completed" ->
                        [waiter EXCEPT !.pc = "returned", !.job = job.ID]
                   [] job.Status = "failed" ->
                        [waiter EXCEPT !.pc = "returned",
                                       !.err = "job failed: " \o job.Error]
                   [] OTHER ->
                        [waiter EXCEPT !.ticks = 1 - @]
    /\ UNCHANGED <<jobVars, nonWaitVars>>

\* case <-ctx.Done(): return nil, ctx.Err().
WaitCancel ==
    /\ waiter.pc = "waiting"
    /\ waiter' = [waiter EXCEPT !.pc = "returned", !.err = "context canceled"]
    /\ UNCHANGED <<jobVars, nonWaitVars>>

-----------------------------------------------------------------------------
(* The operator's startup: cmd/operator/main.go, from the registry to the
   HTTP server *)

StartupIdle ==
    /\ initCalls = <<>>
    /\ startPC = "wiring"

\* The loop over enabledModules: GetModuleConfig and Initialize for each
\* element of the slice; the first error ends the process with log.Fatalf.
\* The loop made n Initialize calls, the last of which failed unless ok.
InitializeModules(n, ok) ==
    /\ startPC = "wiring"
    /\ regCall.op = "GetEnabledModules"
    /\ regCall.err \in {"", "none"}
    /\ n \in 0 .. Len(regCall.out)
    /\ ok => n = Len(regCall.out)
    /\ ~ok => n < Len(regCall.out) \/ n > 0
    /\ initCalls' = SubSeq(regCall.out, 1, n)
    /\ startPC' = IF ok THEN "serving" ELSE "fatal"
    /\ UNCHANGED <<regVars, nonStartVars>>

-----------------------------------------------------------------------------
(* MySQL server monitoring: StartMonitoring of the operator's mysql module
   over the mysql_servers table of the control plane *)

\* serverInfo.Name, "<host>-<port>", of the monitored servers.
ServerNames == {"db1-3306", "db2-3306"}

NoMonCall == [op |-> "", server |-> "", pingOK |-> FALSE, sent |-> FALSE]

MonitoringIdle ==
    /\ serversTable = [name \in ServerNames |-> NoRow]
    /\ monitoring = [name \in ServerNames |-> "off"]
    /\ monCall = NoMonCall

\* INSERT ... ON DUPLICATE KEY UPDATE status = 'active',
\* last_seen = CURRENT_TIMESTAMP.
RegisterServer(table, name, at) ==
    [table EXCEPT ![name] = [status |-> "active", last_seen |-> at]]

\* UPDATE mysql_servers SET status = 'inactive' WHERE name = ?.
MarkServerInactive(table, name) ==
    IF table[name] # NoRow THEN [table EXCEPT ![name].status = "inactive"]
    ELSE table

\* One tick of the loop, had a passed health check set the server active.
HealthCheckTickReactivating(table, name, pingOK, sent) ==
    IF ~pingOK
    THEN IF sent THEN MarkServerInactive(table, name) ELSE table
    ELSE IF table[name] # NoRow THEN [table EXCEPT ![name].status = "active"]
    ELSE table

\* case <-ticker.C: PingContext; on an error MarkServerInactive through the
\* API (sent: the request reached the API), on success a log line only.
HealthCheckTick(table, name, pingOK, sent) ==
    IF ~pingOK
    THEN IF sent THEN MarkServerInactive(table, name) ELSE table
    ELSE table

\* StartMonitoring: RegisterServer through the API, then the goroutine with
\* the loop; without the registration the loop is not started.
StartMonitoring(name, sent) ==
    /\ monitoring[name] = "off"
    /\ serversTable' = IF sent THEN RegisterServer(serversTable, name, dbNow)
                       ELSE serversTable
    /\ monitoring' = IF sent THEN [monitoring EXCEPT ![name] = "running"]
                     ELSE monitoring
    /\ monCall' = [NoMonCall EXCEPT !.op = "StartMonitoring", !.server = name,
                                    !.sent = sent]
    /\ UNCHANGED nonMonVars

MonitorTick(name, pingOK, sent) ==
    /\ monitoring[name] = "running"
    /\ pingOK => sent
    /\ serversTable' = HealthCheckTick(serversTable, name, pingOK, sent)
    /\ monCall' = [op |-> "HealthCheck", server |-> name, pingOK |-> pingOK,
                   sent |-> sent]
    /\ UNCHANGED <<monitoring, nonMonVars>>

\* StopMonitoring, or the operator's exit: MarkServerInactive through the API
\* (StopMonitoring only), and the loop ends with its context.
StopMonitoring(name, sent) ==
    /\ monitoring[name] = "running"
    /\ serversTable' = IF sent THEN MarkServerInactive(serversTable, name)
                       ELSE serversTable
    /\ monitoring' = [monitoring EXCEPT ![name] = "off"]
    /\ monCall' = [NoMonCall EXCEPT !.op = "StopMonitoring", !.server = name,
                                    !.sent = sent]
    /\ UNCHANGED nonMonVars

-----------------------------------------------------------------------------
(* Specifications of the job queue *)

\* CreateJob calls that may fall within the clock's resolution.
CreateJobTwice ==
    \E t \in Readings(clock), inp \in StoreCreateInputs :
       CreateJob(t, inp[1], inp[2], inp[3])

\* CreateJob calls further apart than the clock's resolution.
CreateJobApart ==
    \E t \in LaterReadings(clock), inp \in CreateInputs :
       CreateJob(t, inp[1], inp[2], inp[3])

\* The job store under concurrent HTTP workers.
StoreNext ==
    \/ CreateJobTwice
    \/ \E w \in Workers, url \in UpdateURLs, args \in UpdateInputs :
          HandleUpdateJob(w, url, args)
    \/ \E w \in Workers : UpdateJobLock(w)
    \/ \E w \in Workers : UpdateJobStatus(w)
    \/ \E w \in Workers : UpdateJobResult(w)
    \/ \E w \in Workers : UpdateJobError(w)

JobsInit ==
    /\ StoreInit
    /\ PollInit
    /\ HTTPIdle
    /\ RulesIdle
    /\ LifeIdle
    /\ RegistryIdle
    /\ CallsIdle
    /\ ShutdownIdle
    /\ LivenessIdle
    /\ WaitIdle
    /\ StartupIdle
    /\ MonitoringIdle

SpecStore == JobsInit /\ [][StoreNext]_vars

\* Operators polling the job store; the jobs are created further apart than
\* the clock's resolution.
PollNext ==
    \/ CreateJobApart
    \/ \E o \in Operators : PollJobs(o)
    \/ \E o \in Operators : SkipNoModule(o)
    \/ \E o \in Operators : SkipUnknownType(o)
    \/ \E o \in Operators : ProcessPingJob(o)
    \/ \E o \in Operators : FinishPoll(o)

SpecPoll == JobsInit /\ [][PollNext]_vars

-----------------------------------------------------------------------------
(* Specification of the HTTP handlers *)

ServeInit ==
    /\ StoreInit
    /\ PollInit
    /\ HTTPInit
    /\ RulesIdle
    /\ LifeIdle
    /\ RegistryIdle
    /\ CallsIdle
    /\ ShutdownIdle
    /\ LivenessIdle
    /\ WaitIdle
    /\ StartupIdle
    /\ MonitoringIdle

ServePrivilegeRequest == \E request \in PrivilegeRequests : handlePrivilegeRequest(request)

ServePrivilegeRevoke == \E grantID \in GrantIDs : handlePrivilegeRevoke(grantID)

ServeHealth == \E probes \in Probes : handleHealth(probes)

ServeAPIHealth == \E probes \in Probes : HandleHealthCheck(probes)

ServeNext ==
    \/ ServePrivilegeRequest
    \/ ServePrivilegeRevoke
    \/ ServeHealth
    \/ ServeAPIHealth

SpecServe == ServeInit /\ [][ServeNext]_vars

-----------------------------------------------------------------------------
(* Specification of the rule engine *)

RulesInit ==
    /\ StoreInit
    /\ PollInit
    /\ HTTPIdle
    /\ RulesIdle
    /\ LifeIdle
    /\ RegistryIdle
    /\ CallsIdle
    /\ ShutdownIdle
    /\ LivenessIdle
    /\ WaitIdle
    /\ StartupIdle
    /\ MonitoringIdle

BuildRequest == \E request \in ModelRequests : NewRequest(request)

RulesNext ==
    \/ BuildRequest
    \/ Evaluate

SpecRules == RulesInit /\ [][RulesNext]_vars

-----------------------------------------------------------------------------
(* Specifications of the privilege lifecycle *)

LifeInit ==
    /\ StoreInit
    /\ PollInit
    /\ enabled = <<"mysql", "kubernetes">>
    /\ granted = {}
    /\ invoked = NoRequest
    /\ resp = NoResponse
    /\ RulesIdle
    /\ LifeIdle
    /\ RegistryIdle
    /\ CallsIdle
    /\ ShutdownIdle
    /\ LivenessIdle
    /\ WaitIdle
    /\ StartupIdle
    /\ MonitoringIdle

SubmitRequest == \E request \in LifeRequests : Submit(request)

ApproveRequest == \E i \in 1 .. Len(requests) : Approve(i)

RevokeGrantByID == \E i \in 1 .. Len(grants) : Revoke(i)

LifeNext ==
    \/ SubmitRequest
    \/ ApproveRequest
    \/ RevokeGrantByID
    \/ Sweep
    \/ Tick

SpecLife == LifeInit /\ [][LifeNext]_vars

\* The timers keep firing: time passes and the sweep runs.
SpecLifeFair == LifeInit /\ [][LifeNext]_vars /\ WF_vars(Tick) /\ WF_vars(Sweep)

-----------------------------------------------------------------------------
(* Specification of the module registries *)

RegistryInit ==
    /\ StoreInit
    /\ PollInit
    /\ HTTPIdle
    /\ RulesIdle
    /\ LifeIdle
    /\ registryKind \in RegistryKinds
    /\ registered = <<>>
    /\ regCall = NoCall
    /\ CallsIdle
    /\ ShutdownIdle
    /\ LivenessIdle
    /\ WaitIdle
    /\ StartupIdle
    /\ MonitoringIdle

RegisterModule == \E module \in Modules : Register(module)

ResolveEnabledModules == \E csv \in CSVs : GetEnabledModules(csv)

RegistryNext ==
    \/ RegisterModule
    \/ ResolveEnabledModules

SpecRegistry == RegistryInit /\ [][RegistryNext]_vars

-----------------------------------------------------------------------------
(* Specification of the JobStore under one caller *)

CreateJobCall ==
    \E t \in Readings(clock), inp \in StoreCreateInputs :
        CallCreateJob(t, inp[1], inp[2], inp[3])

UpdateJobCall == \E id \in JobIDs, args \in CallUpdateInputs : CallUpdateJob(id, args)

CallsNext ==
    \/ CreateJobCall
    \/ UpdateJobCall
    \/ CallGetPendingJobs

SpecCalls == JobsInit /\ [][CallsNext]_vars

-----------------------------------------------------------------------------
(* Specification of the operator's shutdown *)

ShutdownNext ==
    \/ Signal
    \/ PollSelect
    \/ PollList
    \/ PollHandle
    \/ PollReport
    \/ ServerAccept
    \/ ServerRespond
    \/ MainReceive
    \/ MainExit
    \/ MainFatal

SpecShutdown == JobsInit /\ [][ShutdownNext]_vars

-----------------------------------------------------------------------------
(* Specification of the operators table *)

RegisterAnOperator == \E id \in OperatorIDs : RegisterOperator(id)

Heartbeat == \E id \in OperatorIDs, ts \in Timestamps : UpdateOperatorHealth(id, ts)

MarkInactive == \E id \in OperatorIDs : MarkOperatorInactive(id)

QueryInactive == \E timeout \in Timeouts : GetInactiveOperators(timeout)

LivenessNext ==
    \/ RegisterAnOperator
    \/ Heartbeat
    \/ MarkInactive
    \/ QueryInactive
    \/ DBTick

SpecLiveness == JobsInit /\ [][LivenessNext]_vars

-----------------------------------------------------------------------------
(* Specification of a CLI client waiting for a job the operators process *)

WaitForAJob == \E id \in JobIDs : WaitStart(id)

WaitNext ==
    \/ CreateJobApart
    \/ \E o \in Operators : PollJobs(o)
    \/ \E o \in Operators : SkipNoModule(o)
    \/ \E o \in Operators : SkipUnknownType(o)
    \/ \E o \in Operators : ProcessPingJob(o)
    \/ \E o \in Operators : FinishPoll(o)
    \/ WaitForAJob
    \/ WaitTick
    \/ WaitCancel

SpecWait == JobsInit /\ [][WaitNext]_vars

\* The ticker fires as long as the call waits.
SpecWaitFair == SpecWait /\ WF_vars(WaitTick)

-----------------------------------------------------------------------------
(* Specification of the operator's startup *)

InitializeEnabledModules ==
    \E n \in 0 .. MaxCSVLen, ok \in BOOLEAN : InitializeModules(n, ok)

StartupNext ==
    \/ RegisterModule
    \/ ResolveEnabledModules
    \/ InitializeEnabledModules

SpecStartup == RegistryInit /\ [][StartupNext]_vars

-----------------------------------------------------------------------------
(* Specification of the MySQL server monitoring *)

StartAMonitor == \E name \in ServerNames, sent \in BOOLEAN : StartMonitoring(name, sent)

CheckAServer ==
    \E name \in ServerNames, pingOK \in BOOLEAN, sent \in BOOLEAN :
        MonitorTick(name, pingOK, sent)

StopAMonitor == \E name \in ServerNames, sent \in BOOLEAN : StopMonitoring(name, sent)

MonitoringNext ==
    \/ StartAMonitor
    \/ CheckAServer
    \/ StopAMonitor
    \/ DBTick

SpecMonitoring == JobsInit /\ [][MonitoringNext]_vars

-----------------------------------------------------------------------------
(* Claims about the job store *)

\* C1: a job that became terminal (completed or failed) keeps the Status,
\* Result and Error it had then; no later UpdateJob call changes them.
TerminalOutcomeImmutable ==
    mu = "free" =>
      \A id \in DOMAIN jobs :
        firstTerminal[id] # NoOutcome => Outcome(jobs[id]) = firstTerminal[id]

\* C3: whenever no UpdateJob call is inside the store, every job holds the
\* Status, Result and Error of one single call, the last one that returned;
\* concurrent contradictory calls never leave a mix of their fields.
OutcomeOfOneCall ==
    mu = "free" =>
      \A id \in DOMAIN jobs : Outcome(jobs[id]) = lastDone[id]

\* Two workers' contradictory UpdateJob calls on one job have both returned 200.
RaceSettled ==
    /\ mu = "free"
    /\ \A w \in Workers : httpResp[w] = 200 /\ call[w].pc = "idle"
    /\ \E id \in DOMAIN jobs :
         /\ firstTerminal[id][1] = "completed"
         /\ lastDone[id][1] = "failed"

-----------------------------------------------------------------------------
(* Claims about the operator poll loop *)

\* C2: each job's handler is dispatched by at most one operator (the operator
\* that claimed it), under any interleaving of the operators' polls.
DispatchedByAtMostOneOperator ==
    \A id \in JobIDs : Cardinality(dispatchedBy[id]) <= 1

\* C10: every dispatched job whose handler failed, by a module error or an
\* unusable request payload, was reported through UpdateJob with status
\* failed and the error text, and the poll loop has not crashed.
FailedHandlerReported ==
    \A o \in Operators :
      /\ ops[o].pc # "panicked"
      /\ handled.outcome \in {"module error", "parse error"} =>
           /\ handled.sent[1] = "failed"
           /\ handled.sent[3] # ""

-----------------------------------------------------------------------------
(* Claims about the operator's HTTP handlers *)

\* C4: no Module.HandlePrivilegeRequest call is made for a request that
\* violates a rule: the request of every module call has a duration inside
\* [MinDuration, MaxDuration] and a non-empty Reason, i.e. the rule engine
\* accepts it.
NoModuleCallOnRuleViolation ==
    invoked # NoRequest =>
        EvaluateRequest([RequestedAt |-> 0,
                         ExpiresAt |-> parseDuration(invoked.Duration),
                         Reason |-> invoked.Reason]) = ""

\* C5: a revoke call reports success, whether the grant is known, already
\* revoked or unknown: every answer of POST /privilege/revoke is 200 and
\* carries no module error.
RevokeReportsSuccess ==
    resp.handler = "revoke" => resp.code = 200 /\ resp.errors = <<>>

\* C9: the health endpoint's status is "ok" only if every enabled module's
\* HealthCheck succeeded; if one failed the status is "degraded" and the
\* HTTP status 503, the failing modules' entries carry their error text and
\* the other entries are "healthy".
HealthAggregate ==
    resp.handler \in {"health", "api health"} =>
        LET failed == {i \in 1 .. Len(enabled) : resp.probes[i] # ""} IN
        /\ resp.status = "ok" => failed = {}
        /\ failed # {} =>
             /\ resp.status = "degraded"
             /\ resp.code = 503
             /\ \A i \in 1 .. Len(enabled) :
                  LET entry == resp.modules[enabled[i]] IN
                  IF i \in failed
                  THEN entry[Len(entry)] = resp.probes[i]
                  ELSE entry = <<"healthy">>

-----------------------------------------------------------------------------
(* Claims about the rule engine *)

\* C8: the rule check accepts a request exactly when its duration
\* ExpiresAt - RequestedAt lies in [5 minutes, 24 hours], both bounds
\* included, and its Reason is non-empty.
RuleAcceptsExactlyInBounds ==
    ruleVerdict \notin {"no request", "unevaluated"} =>
        (ruleVerdict = ""
           <=> /\ 5 * 60 <= ruleRequest.ExpiresAt - ruleRequest.RequestedAt
               /\ ruleRequest.ExpiresAt - ruleRequest.RequestedAt <= 24 * 60 * 60
               /\ ruleRequest.Reason # "")

LongestRequestAccepted ==
    /\ ruleVerdict = ""
    /\ ruleRequest.ExpiresAt - ruleRequest.RequestedAt = 24 * 60 * 60
    /\ ruleRequest.RequestedAt > 0

-----------------------------------------------------------------------------
(* Claims about the privilege lifecycle *)

ExpiredGrantEventuallyRevoked ==
    \A i \in 1 .. Cardinality(RequestIDs) :
        (Len(grants) >= i /\ grants[i].Status = "active" /\ now >= grants[i].ExpiresAt)
          ~> (Len(grants) >= i /\ grants[i].Status = "revoked")

-----------------------------------------------------------------------------
(* Claims about the module registries *)

\* C11: Register fails with a duplicate-module error when a module whose
\* name is equal ignoring case is already registered, and leaves the
\* registry as it was; no two registered names are equal ignoring case.
RegisterRejectsDuplicate ==
    /\ (/\ regCall.op = "Register"
        /\ \E k \in DOMAIN regCall.before : ToLower(k) = ToLower(regCall.module.Name))
         => /\ regCall.err \notin {"", "none"}
            /\ registered = regCall.before
    /\ \A a, b \in DOMAIN registered : ToLower(a) = ToLower(b) => a = b

\* C12: GetEnabledModules fails with a module-not-found error and returns
\* no module when a name of the list was never registered.
UnregisteredNameIsAnError ==
    (/\ regCall.op = "GetEnabledModules"
     /\ \E i \in 1 .. Len(Split(regCall.csv)) :
          LET name == TrimSpace(Split(regCall.csv)[i]) IN
          /\ name # <<>>
          /\ \A k \in DOMAIN registered : ToLower(k) # ToLower(name))
      => /\ regCall.err \notin {"", "none"}
         /\ regCall.out = <<>>

\* C13: when every listed name is registered, ModuleRegistry.GetEnabledModules
\* returns one module per listed name, in the order of the list, the
\* whitespace around a name ignored.
EnabledModulesInCallerOrder ==
    (registryKind = "internal" /\ regCall.op = "GetEnabledModules") =>
        LET NonEmpty(piece) == TrimSpace(piece) # <<>>
            listed == SelectSeq(Split(regCall.csv), NonEmpty)
        IN
        (/\ listed # <<>>
         /\ \A i \in 1 .. Len(listed) :
              \E k \in DOMAIN registered : ToLower(k) = ToLower(TrimSpace(listed[i])))
          => /\ regCall.err = ""
             /\ Len(regCall.out) = Len(listed)
             /\ \A i \in 1 .. Len(listed) :
                  /\ ToLower(regCall.out[i].Name) = ToLower(TrimSpace(listed[i]))
                  /\ regCall.out[i] \in {registered[k] : k \in DOMAIN registered}

TwoModulesResolved ==
    /\ registryKind = "internal"
    /\ regCall.op = "GetEnabledModules"
    /\ regCall.csv = <<"k", ",", "M">>
    /\ regCall.err = ""
    /\ Len(regCall.out) = 2

-----------------------------------------------------------------------------
(* Claims about the JobStore's calls *)

\* C14: CreateJob returns a pending job whose ID is greater than the ID of
\* every job created earlier, and leaves every job already in the store as
\* it was.
CreatedJobHasFreshID ==
    storeCall.op = "CreateJob" =>
        /\ storeCall.out[1].Status = "pending"
        /\ \A id \in DOMAIN storeCall.before :
             /\ id < storeCall.id
             /\ id \in DOMAIN jobs
             /\ jobs[id] = storeCall.before[id]

\* C15: GetPendingJobs returns exactly the jobs whose Status is pending,
\* each once, and no job of another Status.
PendingJobsListed ==
    storeCall.op = "GetPendingJobs" =>
        /\ \A id \in DOMAIN storeCall.before :
             Cardinality({i \in 1 .. Len(storeCall.out) : storeCall.out[i].ID = id})
               = IF storeCall.before[id].Status = "pending" THEN 1 ELSE 0
        /\ \A i \in 1 .. Len(storeCall.out) :
             /\ storeCall.out[i].ID \in DOMAIN storeCall.before
             /\ storeCall.out[i] = storeCall.before[storeCall.out[i].ID]

OnePendingOfTwoListed ==
    /\ storeCall.op = "GetPendingJobs"
    /\ Len(storeCall.out) = 1
    /\ \E id \in DOMAIN storeCall.before : storeCall.before[id].Status = "completed"

\* C16: GetPendingJobs returns the pending jobs in creation order; a job
\* created earlier has the smaller ID, so the IDs of the list ascend.
PendingJobsInCreationOrder ==
    storeCall.op = "GetPendingJobs" =>
        \A i, j \in 1 .. Len(storeCall.out) :
            i < j => storeCall.out[i].ID < storeCall.out[j].ID

\* C17: UpdateJob on an ID that is not in the store fails with a not-found
\* error and changes nothing: no job is created, no job is modified.
UnknownIDNotFound ==
    (storeCall.op = "UpdateJob" /\ storeCall.id \notin DOMAIN storeCall.before) =>
        /\ storeCall.err = "job not found"
        /\ jobs = storeCall.before

UnknownIDUpdated ==
    /\ storeCall.op = "UpdateJob"
    /\ storeCall.id \notin DOMAIN storeCall.before
    /\ storeCall.before # <<>>

\* C18: UpdateJob(id, "completed", r, "") on a pending job, followed by
\* GetJob(id), returns that job with Status completed, Result r and an empty
\* Error.
CompletedJobReadBack ==
    (/\ storeCall.op = "UpdateJob"
     /\ storeCall.id \in DOMAIN storeCall.before
     /\ storeCall.args[1] = "completed"
     /\ storeCall.args[3] = "")
      => (storeCall.before[storeCall.id].Status = "pending"
            => /\ storeCall.err = ""
               /\ GetJob(storeCall.id) =
                    [storeCall.before[storeCall.id] EXCEPT
                       !.Status = "completed", !.Result = storeCall.args[2],
                       !.Error = ""])

PendingJobCompleted ==
    /\ storeCall.op = "UpdateJob"
    /\ storeCall.id \in DOMAIN storeCall.before
    /\ storeCall.before[storeCall.id].Status = "pending"
    /\ storeCall.args = <<"completed", "db-2.local", "">>
    /\ Cardinality(DOMAIN jobs) = 2

-----------------------------------------------------------------------------
(* Claims about the operator's shutdown *)

\* C19: after a shutdown signal the operator stops the poll loop, awaits the
\* job processing in flight, shuts the server down and exits: the poll loop
\* never stays stopped while main still waits for a signal that is not
\* coming (the server serving on), and the process never exits while
\* processJobs is running.
GracefulShutdown ==
    /\ (pollLoop = "stopped" /\ sigChan = 0) => mainPC # "wait"
    /\ mainPC \in {"exited", "fatal"} => ~interrupted

-----------------------------------------------------------------------------
(* Claims about the privilege modules *)

\* C20: a module's HandlePrivilegeRequest is all-or-nothing: a call that
\* returns an error (the handler answers 500) leaves no privilege applied
\* that was not applied before the call.
FailedRequestAppliesNothing ==
    [][(resp'.handler = "request" /\ resp'.code = 500) => granted' = granted]_vars

\* C21: when HandlePrivilegeRequest returns success, request.Metadata holds
\* the grant record of this request (its ID, the generated user name, the
\* privileges granted); when it returns an error, Metadata is as the caller
\* sent it.
MetadataHoldsGrantRecord ==
    (resp.handler = "request" /\ resp.code \in {200, 500}) =>
        IF resp.code = 200
        THEN /\ resp.metadata.id = invoked.ID
             /\ resp.metadata.name = Username(invoked)
             /\ resp.metadata.privileges = parsePrivileges(invoked.Level)
             /\ resp.metadata.privileges # <<>>
        ELSE resp.metadata = invoked.Metadata

CallerMetadataReplaced ==
    /\ resp.handler = "request"
    /\ resp.code = 200
    /\ invoked.Level = "write"
    /\ invoked.Metadata = CallerMetadata

-----------------------------------------------------------------------------
(* Claims about operator liveness *)

\* C22: GetInactiveOperators(timeout) returns exactly the registered operators
\* whose last heartbeat is older than the timeout, whatever registrations,
\* heartbeats and mark-inactive calls came before.
InactiveAreTheStaleOperators ==
    liveCall.op = "GetInactiveOperators" =>
        liveCall.out =
            {id \in OperatorIDs :
               /\ liveCall.before[id] # NoRow
               /\ liveCall.before[id].last_seen < liveCall.at - liveCall.timeout}

\* C23: a heartbeat or a MarkOperatorInactive for an operator ID that was never
\* registered returns a not-found error and leaves the table as it was.
UnregisteredOperatorNotFound ==
    (/\ liveCall.op \in {"UpdateOperatorHealth", "MarkOperatorInactive"}
     /\ liveCall.before[liveCall.id] = NoRow) =>
        /\ liveCall.err # ""
        /\ operatorsTable = liveCall.before

-----------------------------------------------------------------------------
(* Claims about the CLI waiting for a job *)

\* C24: WaitForJobCompletion returns a job only when its Status is completed
\* and the error "job failed: <Error>" only when it is failed; and once the
\* handler of the awaited job failed on an operator, the waiting client
\* eventually gets that error (non-empty Error text), unless its context ends.
FailedJobObservable ==
    /\ [](waiter.pc = "returned" =>
            \/ /\ waiter.job = waiter.id
               /\ jobs[waiter.id].Status = "completed"
            \/ /\ waiter.err = "context canceled"
            \/ /\ jobs[waiter.id].Status = "failed"
               /\ jobs[waiter.id].Error # ""
               /\ waiter.err = "job failed: " \o jobs[waiter.id].Error)
    /\ (/\ waiter.pc = "waiting"
        /\ handled.id = waiter.id
        /\ handled.outcome = "module error")
         ~> (/\ waiter.pc = "returned"
             /\ waiter.err \in {"job failed: failed to get hostname",
                                "context canceled"})

-----------------------------------------------------------------------------
(* Claims about the operator's job reports *)

\* C25: the report an operator sends for an existing job, PUT /jobs/{id} with
\* {status, result, error}, is answered with 200 and the job with that ID
\* holds the reported Status, Result and Error.
ReportAppliedToJob ==
    (/\ handled.outcome \in {"ok", "module error"}
     /\ handled.id \in DOMAIN jobs) =>
        /\ handled.code = 200
        /\ Outcome(jobs[handled.id]) = handled.sent

-----------------------------------------------------------------------------
(* Claims about batches over the enabled modules *)

-----------------------------------------------------------------------------
(* Claims about the operator's startup *)

\* C27: at startup Initialize is called exactly once on each enabled module,
\* whatever accepted enabled-modules list the configuration holds: no module
\* is initialized twice, and a started operator has initialized every module
\* of the list.
InitializedExactlyOnce ==
    registryKind = "internal" =>
        /\ \A i, k \in 1 .. Len(initCalls) :
             initCalls[i] = initCalls[k] => i = k
        /\ startPC = "serving" =>
             \A i \in 1 .. Len(regCall.out) :
               \E k \in 1 .. Len(initCalls) : initCalls[k] = regCall.out[i]

-----------------------------------------------------------------------------
(* Claims about the Status of a job *)

\* C28: every stored job's Status is pending, claimed, completed or failed,
\* and an UpdateJob call changes a Status only forward, from pending or
\* claimed to completed or failed.
StatusOnlyMovesForward ==
    /\ \A id \in DOMAIN jobs :
         jobs[id].Status \in {"pending", "claimed", "completed", "failed"}
    /\ (storeCall.op = "UpdateJob" /\ storeCall.id \in DOMAIN storeCall.before) =>
         LET was == storeCall.before[storeCall.id].Status
             is  == jobs[storeCall.id].Status
         IN is # was => /\ was \in {"pending", "claimed"}
                        /\ is \in {"completed", "failed"}

-----------------------------------------------------------------------------
(* Claims about the rule engine's errors *)

\* C29: the error of a rejected request names a rule the request violates:
\* the maximum duration only if the duration is above 24 hours, the minimum
\* duration only if it is below 5 minutes, the missing reason only if the
\* Reason is empty; and a rejection carries one of these three errors.
ErrorNamesViolatedRule ==
    LET duration == ruleRequest.ExpiresAt - ruleRequest.RequestedAt IN
    ruleVerdict \notin {"no request", "unevaluated", ""} =>
        CASE ruleVerdict = "privilege duration exceeds maximum allowed time" ->
               duration > 24 * 60 * 60
          [] ruleVerdict = "privilege duration is less than minimum allowed time" ->
               duration < 5 * 60
          [] ruleVerdict = "reason is required for privilege request" ->
               ruleRequest.Reason = ""
          [] OTHER -> FALSE

ShortRequestWithoutReasonRejected ==
    /\ ruleVerdict = "privilege duration is less than minimum allowed time"
    /\ ruleRequest.Reason = ""
    /\ ruleRequest.ExpiresAt - ruleRequest.RequestedAt = 5 * 60 - 1

-----------------------------------------------------------------------------
(* Claims about the jobs the poll loop leaves alone *)

\* C30: an operator acts only on jobs whose Module is the name of one of its
\* modules: a job of another module is never handed to a handler of that
\* operator nor reported by it, and stays pending.
OnlyLocalModulesJobsHandled ==
    \A o \in Operators :
      \A id \in DOMAIN jobs :
        (\A i \in 1 .. Len(OperatorModules(o)) :
            OperatorModules(o)[i] # jobs[id].Module) =>
          /\ o \notin dispatchedBy[id]
          /\ (handled.op = o /\ handled.id = id) =>
               /\ handled.outcome = "no module"
               /\ handled.sent = NoOutcome
               /\ handled.code = 0
          /\ jobs[id].Status = "pending"

ForeignJobSkipped ==
    /\ handled.outcome = "no module"
    /\ handled.id \in DOMAIN jobs
    /\ jobs[handled.id].Module = "kubernetes"
    /\ jobs[handled.id].Status = "pending"
    /\ \E id \in DOMAIN jobs : dispatchedBy[id] # {}

-----------------------------------------------------------------------------
(* Claims about what UpdateJob leaves alone *)

\* C31: UpdateJob changes only the Status, Result and Error of the job it
\* names: that job keeps its ID, Module, Type and Request, every other job
\* keeps all its fields, and no job is added or removed.
UpdateJobTouchesOnlyOutcome ==
    (storeCall.op = "UpdateJob" /\ storeCall.id \in DOMAIN storeCall.before) =>
        /\ DOMAIN jobs = DOMAIN storeCall.before
        /\ \A id \in DOMAIN jobs :
             IF id = storeCall.id
             THEN /\ jobs[id].ID = storeCall.before[id].ID
                  /\ jobs[id].Module = storeCall.before[id].Module
                  /\ jobs[id].Type = storeCall.before[id].Type
                  /\ jobs[id].Request = storeCall.before[id].Request
                  /\ Outcome(jobs[id]) = storeCall.args
             ELSE jobs[id] = storeCall.before[id]

OneOfTwoJobsUpdated ==
    /\ storeCall.op = "UpdateJob"
    /\ storeCall.id \in DOMAIN storeCall.before
    /\ Cardinality(DOMAIN storeCall.before) = 2
    /\ Outcome(jobs[storeCall.id]) # Outcome(storeCall.before[storeCall.id])
    /\ \E id \in DOMAIN jobs : Outcome(jobs[id]) # Outcome(jobs[storeCall.id])

-----------------------------------------------------------------------------
(* Claims about the jobs the poll loop cannot handle *)

\* C32: a job of a module the operators have, whose Type is not "ping" or
\* whose payload does not parse, is never reported through UpdateJob by the
\* poll loop: after every step it is pending and unreported, and every
\* listing an operator fetches holds it again.
UnhandledJobStaysPending ==
    [][\A id \in DOMAIN jobs' :
         (/\ \A o \in Operators :
                FindModule(OperatorModules(o), jobs'[id].Module) # ""
          /\ jobs'[id].Type # "ping" \/ jobs'[id].Request # GoodPayload) =>
            /\ jobs'[id].Status = "pending"
            /\ handled'.id = id =>
                 /\ handled'.outcome \in {"unknown type", "parse error"}
                 /\ handled'.sent = NoOutcome
                 /\ handled'.code = 0
            /\ \A o \in Operators :
                 (ops[o].pc = "idle" /\ ops'[o].pc = "loop") =>
                    jobs'[id] \in ops'[o].todo]_vars

UnhandledJobListedAgain ==
    \E o \in Operators :
      /\ handled.op = o
      /\ handled.outcome \in {"unknown type", "parse error"}
      /\ ops[o].pc = "loop"
      /\ handled.id \in DOMAIN jobs
      /\ jobs[handled.id] \in ops[o].todo

-----------------------------------------------------------------------------
(* Claims about enabled-modules lists that name no module *)

\* C33: ModuleRegistry.GetEnabledModules fails for the empty string and the
\* startup stops there; for a non-empty list of separators and whitespace
\* only it returns no module and no error, and the startup goes on, with
\* nothing to initialize, to serve with zero enabled modules.
SeparatorsOnlyListAccepted ==
    (registryKind = "internal" /\ regCall.op = "GetEnabledModules") =>
        /\ regCall.csv = <<>> =>
             /\ regCall.err = "no modules enabled"
             /\ startPC = "wiring"
        /\ (/\ regCall.csv # <<>>
            /\ \A i \in 1 .. Len(regCall.csv) : regCall.csv[i] \in {" ", ","}) =>
             /\ regCall.err = ""
             /\ regCall.out = <<>>
             /\ initCalls = <<>>
             /\ startPC \in {"wiring", "serving"}

ServingWithNoModule ==
    /\ registryKind = "internal"
    /\ regCall.op = "GetEnabledModules"
    /\ regCall.csv = <<" ", ",", " ">>
    /\ registered # <<>>
    /\ startPC = "serving"

-----------------------------------------------------------------------------
(* Claims about the MySQL server monitoring *)

\* C34: a server the monitoring loop marked inactive is not made active by a
\* later health check that passes: a passed health check changes no row, and
\* an inactive server becomes active only by a RegisterServer call for it.
InactiveUntilRegisteredAgain ==
    [][/\ (monCall'.op = "HealthCheck" /\ monCall'.pingOK) =>
            serversTable' = serversTable
       /\ \A name \in ServerNames :
            (serversTable[name].status = "inactive"
               /\ serversTable'[name].status # "inactive") =>
              /\ monCall'.op = "StartMonitoring"
              /\ monCall'.server = name
              /\ monCall'.sent
              /\ serversTable'[name].status = "active"]_vars

InactiveServerPassedHealthCheck ==
    /\ monCall.op = "HealthCheck"
    /\ monCall.pingOK
    /\ monitoring[monCall.server] = "running"
    /\ serversTable[monCall.server].status = "inactive"

-----------------------------------------------------------------------------
(* Claims about the operators' liveness states *)

\* C35: an operator's row is active or inactive and is never deleted; it
\* becomes inactive only by MarkOperatorInactive for it and active again only
\* by RegisterOperator or a heartbeat for it; a heartbeat for a registered
\* operator stores the timestamp it carries, older than the stored one or not.
LivenessTwoStates ==
    [][\A id \in OperatorIDs :
         LET was == operatorsTable[id]
             row == operatorsTable'[id]
         IN
         /\ row # NoRow => row.status \in {"active", "inactive"}
         /\ was # NoRow => row # NoRow
         /\ (was.status = "active" /\ row.status # "active") =>
              /\ liveCall'.op = "MarkOperatorInactive"
              /\ liveCall'.id = id
              /\ row.status = "inactive"
         /\ (was.status = "inactive" /\ row.status # "inactive") =>
              /\ liveCall'.op \in {"RegisterOperator", "UpdateOperatorHealth"}
              /\ liveCall'.id = id
              /\ row.status = "active"
         /\ (/\ liveCall'.op = "UpdateOperatorHealth"
             /\ liveCall'.id = id
             /\ was # NoRow) =>
              /\ row.last_seen = liveCall'.timestamp
              /\ row.status = "active"]_vars

LastSeenDecreased ==
    /\ liveCall.op = "UpdateOperatorHealth"
    /\ liveCall.before[liveCall.id] # NoRow
    /\ liveCall.before[liveCall.id].status = "inactive"
    /\ operatorsTable[liveCall.id].status = "active"
    /\ operatorsTable[liveCall.id].last_seen < liveCall.before[liveCall.id].last_seen

-----------------------------------------------------------------------------
(* Claims about privilege levels the modules do not know *)

\* C36: a request whose Level is not read, write or admin (the level root
\* included) is rejected by the mysql and the kubernetes module as an invalid
\* privilege level before any statement runs: the call applies no privilege
\* and leaves request.Metadata as it came, unset if the caller sent none.
UnknownLevelRejectedFirst ==
    [][(/\ resp'.handler = "request"
        /\ resp'.code # 404
        /\ invoked'.Level \notin {"read", "write", "admin"}) =>
           /\ resp'.code = 500
           /\ resp'.errors = << <<invoked'.ResourceID, "invalid privilege level">> >>
           /\ granted' = granted
           /\ resp'.metadata = invoked'.Metadata]_vars

RootLevelRejected ==
    /\ resp.handler = "request"
    /\ resp.code = 500
    /\ invoked.Level = "root"
    /\ invoked.ResourceID = "mysql"
    /\ invoked.Metadata = NoMetadata
    /\ resp.metadata = NoMetadata

=============================================================================
